---- MODULE Spec2Model ----
(***************************************************************************)
(* Invocation-lifecycle and locking subsystem of nori (src/nori.py):       *)
(* check_status(), lockfile_cleanup(), run_mode() and the manual control   *)
(* modes silence / unsilence / disable / enable / clearlock.               *)
(*                                                                         *)
(* Every run-mode invocation is a separate OS process; the only shared     *)
(* state is the filesystem.  One action of the model is one filesystem     *)
(* call of the code (mkdir, stat, exists, touch, unlink, rmtree) together  *)
(* with the process-local code that follows it up to the next filesystem   *)
(* call, so every interleaving the operating system can produce between    *)
(* two calls is an interleaving of the model.  touch_file() is modelled    *)
(* on its Python 2.7 / 3.2 branch (open(path, 'a') then os.utime()), the   *)
(* versions the module's docstring requires.                               *)
(***************************************************************************)
EXTENDS Integers, FiniteSets, TLC

-----------------------------------------------------------------------------
(* Bounds of the model *)

NumProcs == 2
MaxTicks == 2
MaxMinutes == 1

-----------------------------------------------------------------------------
(* Program constants *)

NO_ERROR_EXITVAL == 0
STARTUP_EXITVAL == 10
LOCKFILE_EXITVAL == 11
SecPerMin == 60

\* exit status of the interpreter after an uncaught exception: touch_file()
\* catches OSError only, and on Python 2.7 / 3.2 a failing open() raises
\* IOError, which is not an OSError there
UNCAUGHT_EXITVAL == 1

\* the clock advances by half a minute per Tick
TickSecs == SecPerMin \div 2

\* mutant: the alert-timestamp file defaults to a child of the lock directory
AlertInsideLock_child == TRUE

\* apply_config_defaults_extra(): cfg['lockfile_alert_file'] defaults to
\* cfg['lockfile'] + '.alert', a sibling of the lock directory, not a child
AlertInsideLock == FALSE

Procs == 1..NumProcs
NoFile == -1                \* mtime of a file that does not exist
NoExit == -1                \* exit status of a process that has not exited
Operator == 0               \* lockOwner when disable_script made the directory
Killed == NumProcs + 1      \* lockOwner when the maker died without cleanup

VARIABLES
    run_every,      \* cfg['run_every'], minutes
    if_running,     \* cfg['if_running'], minutes
    now,            \* time.time(), seconds
    lockdir,        \* cfg['lockfile'] exists (a directory)
    lockOwner,      \* who created the lock directory (history variable)
    disabled,       \* cfg['lockfile']/script_disabled exists
    silenced,       \* cfg['lockfile']/lf_alerts_silenced exists
    alertFile,      \* mtime of cfg['lockfile_alert_file'], or NoFile
    lastStarted,    \* mtime of cfg['last_started_file'], or NoFile
    pc,             \* per invocation: the next filesystem call
    exitval,        \* per invocation: sys.exit() status, or NoExit
    sent,           \* per invocation: lock alert emails sent
    fault,          \* per invocation: the filesystem call that failed, if any
    opc,            \* the operator's manual mode: the next filesystem call
    opExit,         \* exit status of the operator's last finished mode
    epSent,         \* time of the last alert email of this lock episode
    disableDone,    \* disable_script succeeded, no enable/clearlock run since
    scen            \* progress of the scenarios disable, enable, check_status
                    \* (1, 2, 3) and clearlock, check_status (4, 5); 6 when
                    \* the last clearlock prompt was not answered with y

cfgVars == <<run_every, if_running>>
fsVars == <<lockdir, lockOwner, disabled, silenced, alertFile, lastStarted>>
procVars == <<pc, exitval, sent, fault>>
opVars == <<opc, opExit>>
histVars == <<epSent, disableDone, scen>>
vars == <<cfgVars, now, fsVars, procVars, opVars, histVars>>

-----------------------------------------------------------------------------
(* Pure helpers *)

\* mutant: the interval is compared in minutes against an age in seconds
file_newer_than_no_secs(mtime, num_min) == (now - mtime) < num_min

\* file_newer_than(): (time.time() - st_mtime) < (num_min * 60)
file_newer_than(mtime, num_min) == (now - mtime) < (num_min * SecPerMin)

\* pcs at which an invocation is inside check_status()
InCheckStatus == {"mkdir", "chk_alert", "first_alert", "chk_silenced",
                  "stat_alert", "realert", "unlink_alert", "cancel_notice"}

\* pcs between the successful os.mkdir() and the end of lockfile_cleanup()
Holding == {"unlink_alert", "cancel_notice", "returned", "task", "cleanup",
            "rmtree"}

\* pcs of the contention branch of check_status()
Contended == {"chk_alert", "first_alert", "chk_silenced", "stat_alert",
              "realert"}

Resting == {"idle", "exited"}

Enter(p, where, val) ==
    /\ pc' = [pc EXCEPT ![p] = where]
    /\ exitval' = [exitval EXCEPT ![p] = val]

Exit(p, val) == Enter(p, "exited", val)

Goto(p, where) ==
    /\ pc' = [pc EXCEPT ![p] = where]
    /\ UNCHANGED exitval

-----------------------------------------------------------------------------
Init ==
    /\ run_every \in 0..MaxMinutes
    /\ if_running \in 0..MaxMinutes
    /\ now = 0
    /\ lockdir = FALSE
    /\ lockOwner = Operator
    /\ disabled = FALSE
    /\ silenced = FALSE
    /\ alertFile = NoFile
    /\ lastStarted = NoFile
    /\ pc = [p \in Procs |-> "idle"]
    /\ exitval = [p \in Procs |-> NoExit]
    /\ sent = [p \in Procs |-> 0]
    /\ fault = [p \in Procs |-> "none"]
    /\ opc = "idle"
    /\ opExit = NoExit
    /\ epSent = NoFile
    /\ disableDone = FALSE
    /\ scen = 0

-----------------------------------------------------------------------------
(* Time *)

Tick ==
    /\ now + TickSecs <= MaxTicks * TickSecs
    /\ now' = now + TickSecs
    /\ UNCHANGED <<cfgVars, fsVars, procVars, opVars, histVars>>

-----------------------------------------------------------------------------
(* run mode: check_status() *)

\* mutant: a missing last-started file is an error like any other OSError
CheckInterval_enoent_fatal(p) ==
    /\ pc[p] \in Resting
    /\ sent' = [sent EXCEPT ![p] = 0]
    /\ fault' = [fault EXCEPT ![p] = "none"]
    /\ IF run_every = 0
         THEN Enter(p, "mkdir", NoExit)
         ELSE IF lastStarted = NoFile
                THEN Enter(p, "exited", STARTUP_EXITVAL)
                ELSE IF file_newer_than(lastStarted, run_every)
                       THEN Enter(p, "exited", NO_ERROR_EXITVAL)
                       ELSE Enter(p, "mkdir", NoExit)
    /\ scen' = IF scen \in {1, 3, 5, 6} THEN 0 ELSE scen
    /\ UNCHANGED <<cfgVars, now, fsVars, opVars, epSent, disableDone>>

\* A new process starts in run mode and evaluates the interval gate.
CheckInterval(p) ==
    /\ pc[p] \in Resting
    /\ sent' = [sent EXCEPT ![p] = 0]
    /\ fault' = [fault EXCEPT ![p] = "none"]
    /\ IF run_every = 0
         THEN Enter(p, "mkdir", NoExit)
         ELSE LET nt == IF lastStarted = NoFile
                          THEN FALSE
                          ELSE file_newer_than(lastStarted, run_every)
              IN  IF nt THEN Enter(p, "exited", NO_ERROR_EXITVAL)
                        ELSE Enter(p, "mkdir", NoExit)
    /\ scen' = IF scen \in {1, 3, 5, 6} THEN 0 ELSE scen
    /\ UNCHANGED <<cfgVars, now, fsVars, opVars, epSent, disableDone>>

\* mutant: EEXIST is not an error (the directory is made if missing, as by
\* an exists-then-create or os.makedirs), so nobody is ever refused
Mkdir_no_eexist(p) ==
    /\ pc[p] = "mkdir"
    /\ lockdir' = TRUE
    /\ lockOwner' = p
    /\ epSent' = NoFile
    /\ Goto(p, "unlink_alert")
    /\ scen' = IF scen = 2 THEN 0 ELSE IF scen = 4 THEN 5 ELSE scen
    /\ UNCHANGED <<cfgVars, now, disabled, silenced, alertFile, lastStarted,
                   sent, fault, opVars, disableDone>>

\* mutant: on EEXIST the invocation waits and calls os.mkdir() again
Mkdir_retries(p) ==
    /\ pc[p] = "mkdir"
    /\ IF ~lockdir
         THEN /\ lockdir' = TRUE
              /\ lockOwner' = p
              /\ epSent' = NoFile
              /\ Goto(p, "unlink_alert")
         ELSE /\ UNCHANGED <<lockdir, lockOwner, epSent>>
              /\ Goto(p, "mkdir")
    /\ scen' = IF scen = 2 THEN (IF lockdir THEN 3 ELSE 0)
               ELSE IF scen = 4 THEN (IF lockdir THEN 0 ELSE 5)
               ELSE scen
    /\ UNCHANGED <<cfgVars, now, disabled, silenced, alertFile, lastStarted,
                   sent, fault, opVars, disableDone>>

\* os.mkdir(cfg['lockfile']) and, on success, atexit.register()
Mkdir(p) ==
    /\ pc[p] = "mkdir"
    /\ IF ~lockdir
         THEN /\ lockdir' = TRUE
              /\ lockOwner' = p
              /\ epSent' = NoFile
              /\ Goto(p, "unlink_alert")
         ELSE /\ UNCHANGED <<lockdir, lockOwner, epSent>>
              /\ Goto(p, "chk_alert")
    /\ scen' = IF scen = 2 THEN (IF lockdir THEN 3 ELSE 0)
               ELSE IF scen = 4 THEN (IF lockdir THEN 0 ELSE 5)
               ELSE scen
    /\ UNCHANGED <<cfgVars, now, disabled, silenced, alertFile, lastStarted,
                   sent, fault, opVars, disableDone>>

\* mutant: cfg['if_running'] == 0 is not tested
ChkAlert_ignores_zero(p) ==
    /\ pc[p] = "chk_alert"
    /\ IF alertFile = NoFile
         THEN Goto(p, "first_alert")
         ELSE Goto(p, "chk_silenced")
    /\ UNCHANGED <<cfgVars, now, fsVars, sent, fault, opVars, histVars>>

\* os.path.exists(cfg['lockfile_alert_file']), then cfg['if_running'] == 0
ChkAlert(p) ==
    /\ pc[p] = "chk_alert"
    /\ IF alertFile = NoFile
         THEN Goto(p, "first_alert")
         ELSE IF if_running = 0
                THEN Exit(p, LOCKFILE_EXITVAL)
                ELSE Goto(p, "chk_silenced")
    /\ UNCHANGED <<cfgVars, now, fsVars, sent, fault, opVars, histVars>>

\* mutant: the email is sent but the alert-timestamp file is not touched
SendAlert_no_touch(p) ==
    /\ sent' = [sent EXCEPT ![p] = @ + 1]
    /\ epSent' = now
    /\ Exit(p, LOCKFILE_EXITVAL)
    /\ UNCHANGED <<cfgVars, now, fsVars, fault, opVars, disableDone,
                   scen>>

\* touch_file(cfg['lockfile_alert_file']), one email, exit
SendAlert(p) ==
    /\ alertFile' = now
    /\ sent' = [sent EXCEPT ![p] = @ + 1]
    /\ epSent' = now
    /\ Exit(p, LOCKFILE_EXITVAL)
    /\ UNCHANGED <<cfgVars, now, lockdir, lockOwner, disabled, silenced,
                   lastStarted, fault, opVars, disableDone,
                   scen>>

FirstAlert(p) ==
    /\ pc[p] = "first_alert"
    /\ SendAlert(p)

\* mutant: the lf_alerts_silenced semaphore silences one alert and is
\* removed by the invocation that saw it
ChkSilenced_consumes(p) ==
    /\ pc[p] = "chk_silenced"
    /\ IF silenced
         THEN /\ silenced' = FALSE
              /\ Exit(p, LOCKFILE_EXITVAL)
         ELSE /\ UNCHANGED silenced
              /\ Goto(p, "stat_alert")
    /\ UNCHANGED <<cfgVars, now, lockdir, lockOwner, disabled, alertFile,
                   lastStarted, sent, fault, opVars, histVars>>

\* os.path.exists(cfg['lockfile']/lf_alerts_silenced)
ChkSilenced(p) ==
    /\ pc[p] = "chk_silenced"
    /\ IF silenced
         THEN Exit(p, LOCKFILE_EXITVAL)
         ELSE Goto(p, "stat_alert")
    /\ UNCHANGED <<cfgVars, now, fsVars, sent, fault, opVars, histVars>>

\* file_newer_than(cfg['lockfile_alert_file'], cfg['if_running'])
StatAlert(p) ==
    /\ pc[p] = "stat_alert"
    /\ IF alertFile = NoFile
         THEN Exit(p, STARTUP_EXITVAL)
         ELSE IF file_newer_than(alertFile, if_running)
                THEN Exit(p, LOCKFILE_EXITVAL)
                ELSE Goto(p, "realert")
    /\ UNCHANGED <<cfgVars, now, fsVars, sent, fault, opVars, histVars>>

\* mutant: with the script_disabled semaphore present the contention is
\* only logged
ReAlert_disabled_log_only(p) ==
    /\ pc[p] = "realert"
    /\ IF disabled
         THEN /\ Exit(p, LOCKFILE_EXITVAL)
              /\ UNCHANGED <<cfgVars, now, fsVars, sent, fault, opVars,
                             histVars>>
         ELSE SendAlert(p)

\* touch_file(cfg['lockfile_alert_file']) and the email of a later alert;
\* the script_disabled semaphore only chooses the text of the email
ReAlert(p) ==
    /\ pc[p] = "realert"
    /\ SendAlert(p)

\* mutant: the alert-timestamp file is left alone on acquisition
UnlinkAlert_keeps_alert_file(p) ==
    /\ pc[p] = "unlink_alert"
    /\ Goto(p, "returned")
    /\ UNCHANGED <<cfgVars, now, fsVars, sent, fault, opVars, histVars>>

\* mutant: check_status() also touches the last-started file before it
\* returns
UnlinkAlert_touches_started(p) ==
    /\ pc[p] = "unlink_alert"
    /\ alertFile' = NoFile
    /\ lastStarted' = now
    /\ Goto(p, IF alertFile # NoFile THEN "cancel_notice" ELSE "returned")
    /\ UNCHANGED <<cfgVars, now, lockdir, lockOwner, disabled, silenced,
                   sent, fault, opVars, histVars>>

\* os.unlink(cfg['lockfile_alert_file']): on ENOENT check_status() returns,
\* on success it goes on to the else branch of the try
UnlinkAlert(p) ==
    /\ pc[p] = "unlink_alert"
    /\ alertFile' = NoFile
    /\ Goto(p, IF alertFile # NoFile THEN "cancel_notice" ELSE "returned")
    /\ UNCHANGED <<cfgVars, now, lockdir, lockOwner, disabled, silenced,
                   lastStarted, sent, fault, opVars, histVars>>

\* email_logger.info('Lockfile created; cancelling previous alert status.');
\* check_status() returns
CancelNotice(p) ==
    /\ pc[p] = "cancel_notice"
    /\ Goto(p, "returned")
    /\ UNCHANGED <<cfgVars, now, fsVars, sent, fault, opVars, histVars>>

-----------------------------------------------------------------------------
(* run mode: run_mode() after check_status(), and the exit callback *)

\* touch_file(cfg['last_started_file']); the task body starts
TouchStarted(p) ==
    /\ pc[p] = "returned"
    /\ lastStarted' = now
    /\ Goto(p, "task")
    /\ UNCHANGED <<cfgVars, now, lockdir, lockOwner, disabled, silenced,
                   alertFile, sent, fault, opVars, histVars>>

\* mutant: lockfile_cleanup() is not registered as an exit callback
TaskDone_no_callback(p) ==
    /\ pc[p] = "task"
    /\ Enter(p, "exited", NO_ERROR_EXITVAL)
    /\ UNCHANGED <<cfgVars, now, fsVars, sent, fault, opVars,
                   histVars>>

\* the task body ends; sys.exit(NO_ERROR_EXITVAL) runs the exit callbacks
TaskDone(p) ==
    /\ pc[p] = "task"
    /\ Enter(p, "cleanup", NO_ERROR_EXITVAL)
    /\ UNCHANGED <<cfgVars, now, fsVars, sent, fault, opVars, histVars>>

\* mutant: the exit callback does not look at the script_disabled semaphore
CleanupCheck_ignore_disabled(p) ==
    /\ pc[p] = "cleanup"
    /\ Goto(p, "rmtree")
    /\ UNCHANGED <<cfgVars, now, fsVars, sent, fault, opVars, histVars>>

\* lockfile_cleanup(): os.path.isfile(cfg['lockfile']/script_disabled)
CleanupCheck(p) ==
    /\ pc[p] = "cleanup"
    /\ IF disabled
         THEN Goto(p, "exited")
         ELSE Goto(p, "rmtree")
    /\ UNCHANGED <<cfgVars, now, fsVars, sent, fault, opVars, histVars>>

\* mutant: the last-started file is kept in the lock directory and goes
\* with it
rmtree_removes_started ==
    /\ lockdir' = FALSE
    /\ lockOwner' = Operator
    /\ disabled' = FALSE
    /\ silenced' = FALSE
    /\ alertFile' = IF AlertInsideLock THEN NoFile ELSE alertFile
    /\ lastStarted' = NoFile

\* shutil.rmtree(cfg['lockfile'], ignore_errors): the directory and its
\* children go; cfg['lockfile_alert_file'] goes only if it is a child
rmtree ==
    /\ lockdir' = FALSE
    /\ lockOwner' = Operator
    /\ disabled' = FALSE
    /\ silenced' = FALSE
    /\ alertFile' = IF AlertInsideLock THEN NoFile ELSE alertFile
    /\ UNCHANGED lastStarted

\* mutant: the exit callback leaves the lock directory behind
CleanupRmtree_keeps_dir(p) ==
    /\ pc[p] = "rmtree"
    /\ Goto(p, "exited")
    /\ UNCHANGED <<cfgVars, now, fsVars, sent, fault, opVars, histVars>>

\* lockfile_cleanup(): shutil.rmtree(cfg['lockfile'], True)
CleanupRmtree(p) ==
    /\ pc[p] = "rmtree"
    /\ rmtree
    /\ Goto(p, "exited")
    /\ UNCHANGED <<cfgVars, now, sent, fault, opVars, histVars>>

-----------------------------------------------------------------------------
(* run mode: filesystem calls of check_status() that fail for a reason    *)
(* other than the expected one (EACCES, EIO, ENOSPC, ...).  A failed call *)
(* changes nothing on disk.                                               *)

Fail(p, call) == fault' = [fault EXCEPT ![p] = call]

\* mutant: the last-started file is examined whatever run_every is
StatStartedFail_always(p) ==
    /\ pc[p] \in Resting
    /\ sent' = [sent EXCEPT ![p] = 0]
    /\ Fail(p, "stat_started")
    /\ Exit(p, STARTUP_EXITVAL)
    /\ scen' = IF scen \in {1, 3, 5, 6} THEN 0 ELSE scen
    /\ UNCHANGED <<cfgVars, now, fsVars, opVars, epSent, disableDone>>

\* a new process starts in run mode; os.stat(cfg['last_started_file']) in
\* file_newer_than() raises an OSError other than ENOENT
StatStartedFail(p) ==
    /\ pc[p] \in Resting
    /\ run_every # 0
    /\ sent' = [sent EXCEPT ![p] = 0]
    /\ Fail(p, "stat_started")
    /\ Exit(p, STARTUP_EXITVAL)
    /\ scen' = IF scen \in {1, 3, 5, 6} THEN 0 ELSE scen
    /\ UNCHANGED <<cfgVars, now, fsVars, opVars, epSent, disableDone>>

\* mutant: the exit callback is registered before the os.mkdir(), so it
\* also runs for an invocation that did not make the lock directory
MkdirFail_runs_cleanup(p) ==
    /\ pc[p] = "mkdir"
    /\ Fail(p, "mkdir")
    /\ Enter(p, "cleanup", STARTUP_EXITVAL)
    /\ scen' = IF scen \in {2, 4} THEN 0 ELSE scen
    /\ UNCHANGED <<cfgVars, now, fsVars, sent, opVars, epSent,
                   disableDone>>

\* os.mkdir(cfg['lockfile']) raises an OSError other than EEXIST
MkdirFail(p) ==
    /\ pc[p] = "mkdir"
    /\ Fail(p, "mkdir")
    /\ Exit(p, STARTUP_EXITVAL)
    /\ scen' = IF scen \in {2, 4} THEN 0 ELSE scen
    /\ UNCHANGED <<cfgVars, now, fsVars, sent, opVars, epSent,
                   disableDone>>

\* touch_file(cfg['lockfile_alert_file'], ..., exit_val=None) fails.
\* os.utime() raising OSError: file_error_handler() logs the error and
\* returns, the alert email is sent and the exit status is
\* LOCKFILE_EXITVAL.  open() raising IOError: nothing catches it.
TouchAlertFail(p) ==
    /\ pc[p] \in {"first_alert", "realert"}
    /\ Fail(p, "touch_alert")
    /\ \E raised \in {"OSError", "IOError"} :
          IF raised = "OSError"
            THEN /\ sent' = [sent EXCEPT ![p] = @ + 1]
                 /\ epSent' = now
                 /\ Exit(p, LOCKFILE_EXITVAL)
            ELSE /\ UNCHANGED <<sent, epSent>>
                 /\ Exit(p, UNCAUGHT_EXITVAL)
    /\ UNCHANGED <<cfgVars, now, fsVars, opVars, disableDone, scen>>

\* os.stat(cfg['lockfile_alert_file']) in file_newer_than() raises an
\* OSError other than ENOENT
StatAlertFail(p) ==
    /\ pc[p] = "stat_alert"
    /\ Fail(p, "stat_alert")
    /\ Exit(p, STARTUP_EXITVAL)
    /\ UNCHANGED <<cfgVars, now, fsVars, sent, opVars, histVars>>

\* mutant: the exit callback is registered only after the os.unlink(), so
\* the failing call exits without it
UnlinkAlertFail_no_cleanup(p) ==
    /\ pc[p] = "unlink_alert"
    /\ Fail(p, "unlink_alert")
    /\ Exit(p, STARTUP_EXITVAL)
    /\ UNCHANGED <<cfgVars, now, fsVars, sent, opVars, histVars>>

\* os.unlink(cfg['lockfile_alert_file']) raises an OSError other than
\* ENOENT; sys.exit(STARTUP_EXITVAL) runs the registered exit callback
UnlinkAlertFail(p) ==
    /\ pc[p] = "unlink_alert"
    /\ Fail(p, "unlink_alert")
    /\ Enter(p, "cleanup", STARTUP_EXITVAL)
    /\ UNCHANGED <<cfgVars, now, fsVars, sent, opVars, histVars>>

FaultStep(p) ==
    \/ MkdirFail(p)
    \/ TouchAlertFail(p)
    \/ StatAlertFail(p)
    \/ UnlinkAlertFail(p)

-----------------------------------------------------------------------------
\* An invocation that has registered lockfile_cleanup() is killed (SIGKILL,
\* power loss): it ends at once, the exit callback does not run and nothing
\* on disk changes.  If the lock directory is still the one it made, the
\* directory is from then on a stale one.  (Killing an invocation that has
\* not made the lock directory leaves no trace and is not modelled.)
Crash(p) ==
    /\ pc[p] \in Holding
    /\ lockOwner' = IF lockdir /\ lockOwner = p THEN Killed ELSE lockOwner
    /\ Enter(p, "exited", NoExit)
    /\ UNCHANGED <<cfgVars, now, lockdir, disabled, silenced, alertFile,
                   lastStarted, sent, fault, opVars, histVars>>

-----------------------------------------------------------------------------
(* manual control modes, run by the operator (one mode at a time) *)

OpExit(val) ==
    /\ opc' = "idle"
    /\ opExit' = val

OpGoto(where) ==
    /\ opc' = where
    /\ opExit' = NoExit

\* mutant: the semaphore is touched again when alerts are already silenced
SilenceCheck_retouch ==
    /\ opc = "idle"
    /\ IF ~lockdir
         THEN OpExit(STARTUP_EXITVAL)
         ELSE OpGoto("sil_touch")
    /\ scen' = 0
    /\ UNCHANGED <<cfgVars, now, fsVars, procVars, epSent, disableDone>>

\* silence_lf_alerts(): the two os.path.exists() checks
SilenceCheck ==
    /\ opc = "idle"
    /\ IF ~lockdir \/ silenced
         THEN OpExit(STARTUP_EXITVAL)
         ELSE OpGoto("sil_touch")
    /\ scen' = 0
    /\ UNCHANGED <<cfgVars, now, fsVars, procVars, epSent, disableDone>>

\* silence_lf_alerts(): touch_file(cfg['lockfile']/lf_alerts_silenced); if
\* the directory has gone meanwhile, open() raises IOError, uncaught
SilenceTouch ==
    /\ opc = "sil_touch"
    /\ IF lockdir
         THEN /\ silenced' = TRUE
              /\ OpExit(NO_ERROR_EXITVAL)
         ELSE /\ UNCHANGED silenced
              /\ OpExit(UNCAUGHT_EXITVAL)
    /\ UNCHANGED <<cfgVars, now, lockdir, lockOwner, disabled, alertFile,
                   lastStarted, procVars, histVars>>

\* unsilence_lf_alerts(): os.path.exists() of the semaphore
UnsilenceCheck ==
    /\ opc = "idle"
    /\ IF ~silenced
         THEN OpExit(STARTUP_EXITVAL)
         ELSE OpGoto("unsil_unlink")
    /\ scen' = 0
    /\ UNCHANGED <<cfgVars, now, fsVars, procVars, epSent, disableDone>>

\* unsilence_lf_alerts(): os.unlink() of the semaphore, ENOENT ignored
UnsilenceUnlink ==
    /\ opc = "unsil_unlink"
    /\ silenced' = FALSE
    /\ OpExit(NO_ERROR_EXITVAL)
    /\ UNCHANGED <<cfgVars, now, lockdir, lockOwner, disabled, alertFile,
                   lastStarted, procVars, histVars>>

\* disable_script(): os.path.exists() of the semaphore (and of the lockfile,
\* which only chooses a message)
DisableCheck ==
    /\ opc = "idle"
    /\ IF disabled
         THEN OpExit(STARTUP_EXITVAL)
         ELSE OpGoto("dis_mkdir")
    /\ scen' = 0
    /\ UNCHANGED <<cfgVars, now, fsVars, procVars, epSent, disableDone>>

\* disable_script(): os.mkdir(cfg['lockfile']), EEXIST ignored
DisableMkdir ==
    /\ opc = "dis_mkdir"
    /\ lockdir' = TRUE
    /\ lockOwner' = IF lockdir THEN lockOwner ELSE Operator
    /\ OpGoto("dis_touch")
    /\ UNCHANGED <<cfgVars, now, disabled, silenced, alertFile, lastStarted,
                   procVars, histVars>>

\* mutant: the lf_alerts_silenced semaphore is touched instead
DisableTouch_wrong_file ==
    /\ opc = "dis_touch"
    /\ IF lockdir
         THEN /\ silenced' = TRUE
              /\ OpExit(NO_ERROR_EXITVAL)
              /\ disableDone' = TRUE
              /\ scen' = IF \A p \in Procs : pc[p] \in Resting THEN 1 ELSE 0
         ELSE /\ UNCHANGED <<silenced, disableDone, scen>>
              /\ OpExit(UNCAUGHT_EXITVAL)
    /\ UNCHANGED <<cfgVars, now, lockdir, lockOwner, disabled, alertFile,
                   lastStarted, procVars, epSent>>

\* disable_script(): touch_file(cfg['lockfile']/script_disabled); if the
\* directory has gone meanwhile, open() raises IOError, uncaught
DisableTouch ==
    /\ opc = "dis_touch"
    /\ IF lockdir
         THEN /\ disabled' = TRUE
              /\ OpExit(NO_ERROR_EXITVAL)
              /\ disableDone' = TRUE
              /\ scen' = IF \A p \in Procs : pc[p] \in Resting THEN 1 ELSE 0
         ELSE /\ UNCHANGED <<disabled, disableDone, scen>>
              /\ OpExit(UNCAUGHT_EXITVAL)
    /\ UNCHANGED <<cfgVars, now, lockdir, lockOwner, silenced, alertFile,
                   lastStarted, procVars, epSent>>

\* enable_script(): os.path.exists() of the semaphore
EnableCheck ==
    /\ opc = "idle"
    /\ IF ~disabled
         THEN /\ OpExit(STARTUP_EXITVAL)
              /\ scen' = 0
         ELSE /\ OpGoto("en_unlink")
              /\ scen' = IF scen = 1 THEN 1 ELSE 0
    /\ disableDone' = FALSE
    /\ UNCHANGED <<cfgVars, now, fsVars, procVars, epSent>>

\* mutant: enabling also removes the lock directory
EnableUnlink_rmtree ==
    /\ opc = "en_unlink"
    /\ rmtree
    /\ OpExit(NO_ERROR_EXITVAL)
    /\ scen' = IF scen = 1 THEN 2 ELSE 0
    /\ UNCHANGED <<cfgVars, now, procVars, epSent, disableDone>>

\* enable_script(): os.unlink() of the semaphore, ENOENT ignored
EnableUnlink ==
    /\ opc = "en_unlink"
    /\ disabled' = FALSE
    /\ OpExit(NO_ERROR_EXITVAL)
    /\ scen' = IF scen = 1 THEN 2 ELSE 0
    /\ UNCHANGED <<cfgVars, now, lockdir, lockOwner, silenced, alertFile,
                   lastStarted, procVars, epSent, disableDone>>

\* what the operator may type at the prompt of clear_lockfile()
Answers == {"y", "Y", "n", "N", "yes", ""}

\* str.lower() on those answers
Lower(yn) ==
    CASE yn = "Y" -> "y"
      [] yn = "N" -> "n"
      [] OTHER -> yn

\* mutant: the directory is removed whatever the answer is
ClearCheck_ignores_answer ==
    /\ opc = "idle"
    /\ \E yn \in Answers :
         IF ~lockdir
           THEN /\ OpExit(STARTUP_EXITVAL)
                /\ scen' = 0
           ELSE /\ OpGoto("clr_rmtree")
                /\ scen' = IF Lower(yn) # "y" THEN 6 ELSE 0
    /\ disableDone' = FALSE
    /\ UNCHANGED <<cfgVars, now, fsVars, procVars, epSent>>

\* clear_lockfile(): os.path.exists(cfg['lockfile']) and the prompt
ClearCheck ==
    /\ opc = "idle"
    /\ \E yn \in Answers :
         IF ~lockdir
           THEN /\ OpExit(STARTUP_EXITVAL)
                /\ scen' = 0
           ELSE IF Lower(yn) # "y"
                  THEN /\ OpExit(NO_ERROR_EXITVAL)
                       /\ scen' = 6
                  ELSE /\ OpGoto("clr_rmtree")
                       /\ scen' = 0
    /\ disableDone' = FALSE
    /\ UNCHANGED <<cfgVars, now, fsVars, procVars, epSent>>

\* mutant: only the semaphores inside the lock directory are removed
ClearRmtree_keeps_dir ==
    /\ opc = "clr_rmtree"
    /\ disabled' = FALSE
    /\ silenced' = FALSE
    /\ OpExit(NO_ERROR_EXITVAL)
    /\ scen' = 4
    /\ UNCHANGED <<cfgVars, now, lockdir, lockOwner, alertFile, lastStarted,
                   procVars, epSent, disableDone>>

\* clear_lockfile(): shutil.rmtree(cfg['lockfile'], False), ENOENT ignored
ClearRmtree ==
    /\ opc = "clr_rmtree"
    /\ rmtree
    /\ OpExit(NO_ERROR_EXITVAL)
    /\ scen' = 4
    /\ UNCHANGED <<cfgVars, now, procVars, epSent, disableDone>>

-----------------------------------------------------------------------------
(* Specifications *)

RunStep(p) ==
    \/ CheckInterval(p)
    \/ Mkdir(p)
    \/ ChkAlert(p)
    \/ FirstAlert(p)
    \/ ChkSilenced(p)
    \/ StatAlert(p)
    \/ ReAlert(p)
    \/ UnlinkAlert(p)
    \/ CancelNotice(p)
    \/ TouchStarted(p)
    \/ TaskDone(p)
    \/ CleanupCheck(p)
    \/ CleanupRmtree(p)

OpStep ==
    \/ SilenceCheck
    \/ SilenceTouch
    \/ UnsilenceCheck
    \/ UnsilenceUnlink
    \/ DisableCheck
    \/ DisableMkdir
    \/ DisableTouch
    \/ EnableCheck
    \/ EnableUnlink
    \/ ClearCheck
    \/ ClearRmtree

\* run-mode invocations and the operator, every interleaving
Next ==
    \/ Tick
    \/ \E p \in Procs : RunStep(p)
    \/ OpStep

Spec == Init /\ [][Next]_vars

\* run-mode invocations only, every interleaving: no manual control mode is
\* ever run
NextRun ==
    \/ Tick
    \/ \E p \in Procs : RunStep(p)

SpecRun == Init /\ [][NextRun]_vars

\* Operations run one after another: a check_status() call (with the touch
\* of the last-started file that follows it in run_mode()), an exit callback
\* and a manual mode each run to completion before the next one starts.
\* Task bodies overlap with everything: a run may be in progress while later
\* invocations and the operator come and go.  This is the setting of the
\* properties stated for a sequence of operations; the design trusts the
\* operator not to race with a run when toggling the semaphores.
Busy ==
    \/ \E p \in Procs : pc[p] \notin (Resting \cup {"task"})
    \/ opc # "idle"

SerRunStep(p) ==
    \/ ~Busy /\ CheckInterval(p)
    \/ Mkdir(p)
    \/ ChkAlert(p)
    \/ FirstAlert(p)
    \/ ChkSilenced(p)
    \/ StatAlert(p)
    \/ ReAlert(p)
    \/ UnlinkAlert(p)
    \/ CancelNotice(p)
    \/ TouchStarted(p)
    \/ ~Busy /\ TaskDone(p)
    \/ CleanupCheck(p)
    \/ CleanupRmtree(p)

SerOpStep ==
    \/ ~Busy /\ SilenceCheck
    \/ SilenceTouch
    \/ ~Busy /\ UnsilenceCheck
    \/ UnsilenceUnlink
    \/ ~Busy /\ DisableCheck
    \/ DisableMkdir
    \/ DisableTouch
    \/ ~Busy /\ EnableCheck
    \/ EnableUnlink
    \/ ~Busy /\ ClearCheck
    \/ ClearRmtree

NextSer ==
    \/ Tick
    \/ \E p \in Procs : SerRunStep(p)
    \/ SerOpStep

SpecSer == Init /\ [][NextSer]_vars

\* operations run one after another, and any running invocation may be
\* killed at any moment
NextCrash ==
    \/ NextSer
    \/ \E p \in Procs : Crash(p)

SpecCrash == Init /\ [][NextCrash]_vars

\* operations run one after another, the operator runs only the two manual
\* modes that make or remove the lock directory (disable, clearlock), and
\* any running invocation may be killed at any moment
NextStale ==
    \/ Tick
    \/ \E p \in Procs : SerRunStep(p)
    \/ \E p \in Procs : Crash(p)
    \/ ~Busy /\ DisableCheck
    \/ DisableMkdir
    \/ DisableTouch
    \/ ~Busy /\ ClearCheck
    \/ ClearRmtree

SpecStale == Init /\ [][NextStale]_vars

\* operations run one after another, the operator runs the manual modes
\* that put something into the lock directory or remove it (silence,
\* disable, clearlock), and the os.mkdir() of check_status() may fail
NextRefused ==
    \/ Tick
    \/ \E p \in Procs : SerRunStep(p)
    \/ \E p \in Procs : MkdirFail(p)
    \/ ~Busy /\ SilenceCheck
    \/ SilenceTouch
    \/ ~Busy /\ DisableCheck
    \/ DisableMkdir
    \/ DisableTouch
    \/ ~Busy /\ ClearCheck
    \/ ClearRmtree

SpecRefused == Init /\ [][NextRefused]_vars

\* run-mode invocations whose check_status() calls run one after another,
\* and any filesystem call of check_status() may fail; no manual control
\* mode is run
NextFault ==
    \/ Tick
    \/ \E p \in Procs : SerRunStep(p)
    \/ \E p \in Procs : ~Busy /\ StatStartedFail(p)
    \/ \E p \in Procs : FaultStep(p)

SpecFault == Init /\ [][NextFault]_vars

\* what may be on disk when invocations start: no lock directory, or one
\* left by a killed invocation, with any combination of the two semaphores
\* in it, and with or without the alert-timestamp file
InitDisk ==
    /\ run_every \in 0..MaxMinutes
    /\ if_running \in 0..MaxMinutes
    /\ now = 0
    /\ lockdir \in BOOLEAN
    /\ lockOwner = IF lockdir THEN Killed ELSE Operator
    /\ disabled \in IF lockdir THEN BOOLEAN ELSE {FALSE}
    /\ silenced \in IF lockdir THEN BOOLEAN ELSE {FALSE}
    /\ alertFile \in {NoFile, 0}
    /\ lastStarted = NoFile
    /\ pc = [p \in Procs |-> "idle"]
    /\ exitval = [p \in Procs |-> NoExit]
    /\ sent = [p \in Procs |-> 0]
    /\ fault = [p \in Procs |-> "none"]
    /\ opc = "idle"
    /\ opExit = NoExit
    /\ epSent = NoFile
    /\ disableDone = FALSE
    /\ scen = 0

\* the next call of p's check_status(), when it does what is expected of it
CheckStatusStep(p) ==
    \/ Mkdir(p)
    \/ ChkAlert(p)
    \/ FirstAlert(p)
    \/ ChkSilenced(p)
    \/ StatAlert(p)
    \/ ReAlert(p)
    \/ UnlinkAlert(p)
    \/ CancelNotice(p)

\* as SpecFault, from any on-disk state, and a process inside check_status()
\* goes on to its next call: none of the calls blocks (os.mkdir, os.stat,
\* os.utime, os.unlink, sending the email), so the process runs on
SpecLive ==
    /\ InitDisk
    /\ [][NextFault]_vars
    /\ \A p \in Procs : WF_vars(CheckStatusStep(p))

-----------------------------------------------------------------------------
(* Properties *)

\* p takes a step of check_status()'s contention branch and leaves it
LeavesContention(p) == pc[p] \in Contended /\ pc'[p] \notin Contended

\* p's os.mkdir() has run
MkdirStep(p) == pc[p] = "mkdir" /\ pc'[p] # "mkdir"

\* C1: with run-mode invocations only, at most one invocation at a time is
\* between its successful os.mkdir() of the lock directory and the end of
\* its own lockfile_cleanup().
C1_MutualExclusion ==
    Cardinality({p \in Procs : pc[p] \in Holding}) <= 1

\* one invocation is in its task body and another has been refused the lock
C1_Witness ==
    \E p, q \in Procs :
        /\ p # q
        /\ pc[p] = "task"
        /\ lockOwner = p
        /\ pc[q] = "exited"
        /\ exitval[q] = LOCKFILE_EXITVAL

\* C2: an invocation whose os.mkdir() failed with EEXIST never returns from
\* check_status() and exits with LOCKFILE_EXITVAL, whatever happens around it.
C2_ContentionExitsWithLockfileExitval ==
    [][\A p \in Procs :
          LeavesContention(p) =>
              pc'[p] = "exited" /\ exitval'[p] = LOCKFILE_EXITVAL]_vars

\* C3: since the lock directory was made by a check_status(), with no
\* semaphore present and if_running > 0, a contended check_status() sends
\* exactly one alert email if no alert has been sent yet or the last one is
\* at least if_running minutes old, and none otherwise; it exits with
\* LOCKFILE_EXITVAL.
C3_AlertThrottling ==
    [][\A p \in Procs :
          (LeavesContention(p) /\ if_running > 0 /\ ~silenced /\ ~disabled) =>
              /\ exitval'[p] = LOCKFILE_EXITVAL
              /\ sent'[p] = IF \/ epSent = NoFile
                               \/ now - epSent >= if_running * SecPerMin
                              THEN 1 ELSE 0]_vars

\* while a run is in its task body, a contended check_status() has found
\* the last alert of this episode at least if_running minutes old and is
\* about to send another one
C3_Witness ==
    \E p, q \in Procs :
        /\ pc[q] = "task"
        /\ lockOwner = q
        /\ pc[p] = "realert"
        /\ lockdir /\ ~silenced /\ ~disabled
        /\ if_running > 0
        /\ epSent # NoFile
        /\ now - epSent >= if_running * SecPerMin

\* C4: no alert email is sent while the lf_alerts_silenced semaphore exists.
C4_SilencedSendsNothing ==
    [][\A p \in Procs : silenced => sent'[p] <= sent[p]]_vars

\* C5: lockfile_cleanup() with the script_disabled semaphore present leaves
\* the lock directory and everything else on disk as it is; with the
\* semaphore absent it goes on to shutil.rmtree(), after which the lock
\* directory and both semaphores in it are gone.
C5_CleanupFrame ==
    [][\A p \in Procs :
          /\ (pc[p] = "cleanup" /\ pc'[p] # "cleanup") =>
                IF disabled
                  THEN pc'[p] = "exited" /\ UNCHANGED fsVars
                  ELSE pc'[p] = "rmtree" /\ UNCHANGED fsVars
          /\ (pc[p] = "rmtree" /\ pc'[p] # "rmtree") =>
                /\ pc'[p] = "exited"
                /\ ~lockdir' /\ ~disabled' /\ ~silenced']_vars

\* a run has ended with the semaphore present: its lock directory is still
\* there, with the semaphore in it
C5_Witness ==
    \E p \in Procs :
        /\ pc[p] = "exited"
        /\ exitval[p] = NO_ERROR_EXITVAL
        /\ lockOwner = p
        /\ lockdir /\ disabled

\* C6: once disable_script() has succeeded, and until enable_script() or
\* clear_lockfile() is run, the lock directory and the script_disabled
\* semaphore stay, no os.mkdir() of check_status() succeeds, nobody enters
\* the task body, and every contended invocation exits with
\* LOCKFILE_EXITVAL.
C6_DisabledBlocksRuns ==
    [][disableDone =>
          /\ lockdir /\ disabled
          /\ \A p \in Procs :
                /\ MkdirStep(p) => pc'[p] = "chk_alert"
                /\ pc'[p] = "returned" => pc[p] = "returned"
                /\ LeavesContention(p) =>
                      pc'[p] = "exited" /\ exitval'[p] = LOCKFILE_EXITVAL]_vars

\* the run in progress when disable_script() ran has ended and left its lock
\* directory, and a later invocation has been refused
C6_Witness ==
    \E p, q \in Procs :
        /\ disableDone
        /\ lockOwner = q
        /\ pc[q] = "exited" /\ exitval[q] = NO_ERROR_EXITVAL
        /\ pc[p] = "exited" /\ exitval[p] = LOCKFILE_EXITVAL

\* C7 as claimed: after disable_script() and enable_script(), with nothing
\* else run, the next os.mkdir() of check_status() succeeds.
C7_EnableThenAcquire ==
    [][\A p \in Procs :
          (scen = 2 /\ MkdirStep(p)) => pc'[p] = "unlink_alert"]_vars

\* C7 as amended: after disable_script() and enable_script(), with nothing
\* else run, the lock directory is still there without the semaphore, and
\* the next os.mkdir() of check_status() fails with EEXIST.
C7_EnableKeepsLockDir ==
    [][scen = 2 =>
          /\ lockdir /\ ~disabled
          /\ \A p \in Procs : MkdirStep(p) => pc'[p] = "chk_alert"]_vars

\* the first invocation after disable, enable has exited on contention
C7_Witness ==
    \E p \in Procs :
        /\ scen = 3
        /\ pc[p] = "exited"
        /\ exitval[p] = LOCKFILE_EXITVAL
        /\ lockdir /\ ~disabled

\* C8 as claimed: each of the three semaphore files exists only if the lock
\* directory exists.
C8_SemaphoresInsideLock ==
    (alertFile # NoFile \/ silenced \/ disabled) => lockdir

\* C8 as amended: the two semaphores inside the lock directory exist only if
\* it exists; the alert-timestamp file is untouched by the removal of the
\* lock directory and is removed only by the os.unlink() of a check_status()
\* that has made the lock directory.
C8_SemaphoresAndAlertFile ==
    [][/\ (silenced' \/ disabled') => lockdir'
       /\ (lockdir /\ ~lockdir') => alertFile' = alertFile
       /\ (alertFile # NoFile /\ alertFile' = NoFile) =>
             \E p \in Procs : /\ pc[p] = "unlink_alert"
                              /\ pc'[p] = "cancel_notice"
      ]_vars

\* the lock directory has been removed and the alert-timestamp file is there
C8_Witness ==
    /\ ~lockdir
    /\ alertFile # NoFile
    /\ \A p \in Procs : pc[p] \in Resting

\* C9: with run_every > 0 and a last-started file younger than run_every
\* minutes, a starting invocation exits with NO_ERROR_EXITVAL, never gets to
\* os.mkdir(), and changes nothing on disk.
C9_GateBlocks ==
    [][\A p \in Procs :
          (/\ pc[p] \in Resting
           /\ <<pc[p], exitval[p], sent[p]>>' # <<pc[p], exitval[p], sent[p]>>
           /\ run_every > 0
           /\ lastStarted # NoFile
           /\ now - lastStarted < run_every * SecPerMin) =>
              /\ pc'[p] = "exited"
              /\ exitval'[p] = NO_ERROR_EXITVAL
              /\ UNCHANGED fsVars]_vars

\* a run started less than run_every minutes ago is in its task body and
\* another invocation has exited with NO_ERROR_EXITVAL
C9_Witness ==
    \E p, q \in Procs :
        /\ p # q
        /\ run_every > 0
        /\ pc[q] = "task"
        /\ lastStarted # NoFile
        /\ now - lastStarted < run_every * SecPerMin
        /\ now > lastStarted
        /\ pc[p] = "exited"
        /\ exitval[p] = NO_ERROR_EXITVAL

\* C10: with run_every > 0, when a task body starts (the last-started file
\* is touched) the previous start is at least run_every minutes old.
C10_MinimumSpacing ==
    [][\A p \in Procs :
          (/\ pc[p] = "returned" /\ pc'[p] = "task"
           /\ run_every > 0
           /\ lastStarted # NoFile) =>
              now - lastStarted >= run_every * SecPerMin]_vars

\* C11: an os.mkdir() of check_status() made while the lock directory exists
\* (no lockfile_cleanup() or clear_lockfile() removed it since the previous
\* acquisition) fails and leads to the contention branch, from which the
\* invocation never returns; lockfile_cleanup() with no script_disabled
\* semaphore removes the directory, and an os.mkdir() made while the
\* directory is absent succeeds, after which check_status() returns.
C11_SequentialLock ==
    [][\A p \in Procs :
          /\ (MkdirStep(p) /\ lockdir) =>
                pc'[p] = "chk_alert" /\ UNCHANGED fsVars
          /\ LeavesContention(p) => pc'[p] = "exited"
          /\ (pc[p] = "cleanup" /\ pc'[p] # "cleanup" /\ ~disabled) =>
                pc'[p] = "rmtree"
          /\ (pc[p] = "rmtree" /\ pc'[p] # "rmtree") => ~lockdir'
          /\ (MkdirStep(p) /\ ~lockdir) =>
                pc'[p] = "unlink_alert" /\ lockdir' /\ lockOwner' = p
          /\ (pc[p] = "unlink_alert" /\ pc'[p] # "unlink_alert") =>
                pc'[p] \in {"returned", "cancel_notice"}
          /\ (pc[p] = "cancel_notice" /\ pc'[p] # "cancel_notice") =>
                pc'[p] = "returned"]_vars

\* no manual mode was ever run: an invocation was refused while the lock was
\* held, the holder has released it, and the next check_status() has
\* acquired it and returned
C11_Witness ==
    \E p, q \in Procs :
        /\ p # q
        /\ opc = "idle" /\ opExit = NoExit
        /\ pc[q] = "exited" /\ exitval[q] = LOCKFILE_EXITVAL
        /\ pc[p] = "returned" /\ lockOwner = p
        /\ lastStarted # NoFile

\* C12: after a confirmed clear_lockfile(), with nothing else run, the
\* os.mkdir() of the next check_status() that passes the interval gate
\* succeeds, whatever was in or next to the lock directory before, and
\* check_status() removes the alert-timestamp file and returns.
C12_ClearThenAcquire ==
    [][\A p \in Procs :
          /\ (scen = 4 /\ MkdirStep(p)) =>
                pc'[p] = "unlink_alert" /\ lockdir' /\ lockOwner' = p
          /\ (scen = 5 /\ pc[p] = "unlink_alert"
                       /\ pc'[p] # "unlink_alert") =>
                /\ pc'[p] \in {"returned", "cancel_notice"}
                /\ alertFile' = NoFile
          /\ (scen = 5 /\ pc[p] = "cancel_notice"
                       /\ pc'[p] # "cancel_notice") =>
                pc'[p] = "returned" /\ alertFile' = alertFile]_vars

\* the first check_status() after clear_lockfile() has made the lock
\* directory while the alert-timestamp file of the cleared lock is still
\* there
C12_Witness ==
    \E p \in Procs :
        /\ scen = 5
        /\ opExit = NO_ERROR_EXITVAL
        /\ pc[p] = "unlink_alert"
        /\ lockOwner = p
        /\ alertFile # NoFile

\* C13: a lock directory whose maker was killed while holding it stays until
\* clear_lockfile() removes it; meanwhile every os.mkdir() of check_status()
\* fails and every contended invocation exits with LOCKFILE_EXITVAL.
C13_StaleLockPersists ==
    [][(lockdir /\ lockOwner = Killed) =>
          /\ lockdir' \/ opc = "clr_rmtree"
          /\ \A p \in Procs :
                /\ MkdirStep(p) => pc'[p] = "chk_alert"
                /\ LeavesContention(p) =>
                      pc'[p] = "exited" /\ exitval'[p] = LOCKFILE_EXITVAL
      ]_vars

\* C14: an invocation one of whose filesystem calls in check_status() failed
\* unexpectedly does not go on to the task and exits with STARTUP_EXITVAL.
C14_FaultsAreFatal ==
    \A p \in Procs :
        fault[p] # "none" =>
            /\ pc[p] \in {"exited", "cleanup", "rmtree"}
            /\ exitval[p] = STARTUP_EXITVAL

\* p is started in run mode: its first step, up to the outcome of the
\* interval gate
Starts(p) ==
    /\ pc[p] \in Resting
    /\ <<pc[p], exitval[p], fault[p]>>' # <<pc[p], exitval[p], fault[p]>>

\* C15: with run_every > 0 and no last-started file, a starting invocation
\* does not exit at the interval gate: it goes on to os.mkdir() with no exit
\* status, and nothing on disk has changed.
C15_MissingMarkerPassesGate ==
    [][\A p \in Procs :
          (Starts(p) /\ run_every > 0 /\ lastStarted = NoFile) =>
              /\ pc'[p] = "mkdir"
              /\ exitval'[p] = NoExit
              /\ UNCHANGED fsVars]_vars

\* with run_every > 0 and no last-started file an invocation has passed the
\* gate and made the lock directory
C15_Witness ==
    \E p \in Procs :
        /\ run_every > 0
        /\ lastStarted = NoFile
        /\ pc[p] = "unlink_alert"
        /\ lockOwner = p

\* C17: with run_every = 0 a starting invocation always goes on to
\* os.mkdir(): the last-started file is not examined, so neither its age
\* nor its absence nor an error reading it makes check_status() exit.
C17_NoGateWhenZero ==
    [][\A p \in Procs :
          (Starts(p) /\ run_every = 0) =>
              /\ pc'[p] = "mkdir"
              /\ exitval'[p] = NoExit
              /\ fault'[p] = "none"
              /\ UNCHANGED fsVars]_vars

\* with run_every = 0, while a run that has just touched the last-started
\* file is in its task body, another invocation has passed the gate
C17_Witness ==
    \E p, q \in Procs :
        /\ run_every = 0
        /\ pc[q] = "task"
        /\ lastStarted = now
        /\ pc[p] = "mkdir"

\* C16: a manual mode run when its target state already holds ends at its
\* check and changes nothing on disk: no step that starts or ends a mode at
\* its check changes the disk, and silence, unsilence, disable and enable
\* go on to their modifying call only when the semaphore is not yet in the
\* state they are to produce, which is the state it is in after that call.
C16_ManualModesIdempotent ==
    [][/\ (opc = "idle" /\ opc' = "idle" /\ UNCHANGED <<procVars, now>>) =>
             UNCHANGED fsVars
       /\ (opc = "idle" /\ opc' # "idle") => UNCHANGED fsVars
       /\ (opc = "idle" /\ opc' = "sil_touch") => ~silenced
       /\ (opc = "idle" /\ opc' = "unsil_unlink") => silenced
       /\ (opc = "idle" /\ opc' = "dis_mkdir") => ~disabled
       /\ (opc = "idle" /\ opc' = "en_unlink") => disabled
       /\ (opc = "sil_touch" /\ opExit' = NO_ERROR_EXITVAL) => silenced'
       /\ (opc = "unsil_unlink" /\ opExit' = NO_ERROR_EXITVAL) => ~silenced'
       /\ (opc = "dis_touch" /\ opExit' = NO_ERROR_EXITVAL) => disabled'
       /\ (opc = "en_unlink" /\ opExit' = NO_ERROR_EXITVAL) => ~disabled'
      ]_vars

\* the last manual mode run was silence or disable with both semaphores
\* already present, and it ended with STARTUP_EXITVAL, leaving them there
C16_Witness ==
    /\ opc = "idle"
    /\ opExit = STARTUP_EXITVAL
    /\ lockdir /\ silenced /\ disabled

\* C18: the shutil.rmtree() of an invocation's lockfile_cleanup() removes a
\* lock directory only if that invocation made it.
C18_CleanupRemovesOwnLockOnly ==
    [][\A p \in Procs :
          (pc[p] = "rmtree" /\ pc'[p] = "exited" /\ lockdir) =>
              lockOwner = p]_vars

\* C19: once disable_script() has reported success and no lockfile_cleanup()
\* is under way any more, the lock directory and the script_disabled
\* semaphore exist (until enable_script() or clear_lockfile() is run).
C19_DisableSurvivesCleanup ==
    (/\ disableDone
     /\ opc = "idle"
     /\ \A p \in Procs : pc[p] \notin {"cleanup", "rmtree"}) =>
        (lockdir /\ disabled)

\* C20 as claimed: a contended check_status() that finds the alert-timestamp
\* file and the script_disabled semaphore sends no email, leaves the
\* alert-timestamp file as it is, and exits with LOCKFILE_EXITVAL.
C20_DisabledLogsOnly ==
    [][\A p \in Procs :
          (LeavesContention(p) /\ disabled /\ alertFile # NoFile) =>
              /\ sent'[p] = sent[p]
              /\ alertFile' = alertFile
              /\ exitval'[p] = LOCKFILE_EXITVAL]_vars

\* C20 as amended: with the alert-timestamp file and the script_disabled
\* semaphore present, a contended check_status() throttles as it does
\* without the semaphore: it sends one email and touches the file again if
\* if_running > 0, alerts are not silenced and the file is at least
\* if_running minutes old, and otherwise sends nothing and leaves the file;
\* it exits with LOCKFILE_EXITVAL either way.
C20_DisabledThrottlesAsUsual ==
    [][\A p \in Procs :
          (LeavesContention(p) /\ disabled /\ alertFile # NoFile) =>
              /\ exitval'[p] = LOCKFILE_EXITVAL
              /\ IF /\ if_running > 0
                    /\ ~silenced
                    /\ ~file_newer_than(alertFile, if_running)
                   THEN sent'[p] = 1 /\ alertFile' = now
                   ELSE sent'[p] = 0 /\ alertFile' = alertFile]_vars

\* with the script_disabled semaphore present, a contended check_status()
\* has found the alert-timestamp file at least if_running minutes old and
\* is about to touch it and send another email
C20_Witness ==
    \E p \in Procs :
        /\ disableDone /\ lockdir /\ disabled /\ ~silenced
        /\ if_running > 0
        /\ pc[p] = "realert"
        /\ alertFile # NoFile
        /\ ~file_newer_than(alertFile, if_running)

\* C21 as claimed: when check_status() has returned, the last-started file
\* exists (and carries the time of this start).
C21_StartedTouchedOnReturn ==
    \A p \in Procs : pc[p] = "returned" => lastStarted # NoFile

\* C21 as amended: lockfile_cleanup() is registered before the
\* alert-timestamp file is removed (a failing os.unlink() ends in the exit
\* callback); check_status() removes the alert-timestamp file and returns
\* without touching the last-started file; it is run_mode() that touches it,
\* with the current time, between the return and the task body.
C21_StartedTouchedByRunMode ==
    [][\A p \in Procs :
          /\ (pc[p] = "unlink_alert" /\ pc'[p] # "unlink_alert") =>
                /\ lastStarted' = lastStarted
                /\ \/ /\ pc'[p] \in {"returned", "cancel_notice"}
                      /\ alertFile' = NoFile
                   \/ pc'[p] = "cleanup" /\ fault'[p] = "unlink_alert"
          /\ (pc[p] = "cancel_notice" /\ pc'[p] # "cancel_notice") =>
                pc'[p] = "returned" /\ lastStarted' = lastStarted
          /\ (pc[p] = "returned" /\ pc'[p] # "returned") =>
                pc'[p] = "task" /\ lastStarted' = now]_vars

\* check_status() has returned to run_mode() and the last-started file still
\* carries the time of an earlier start
C21_Witness ==
    \E p \in Procs :
        /\ pc[p] = "returned"
        /\ lockOwner = p
        /\ alertFile = NoFile
        /\ lastStarted # NoFile
        /\ lastStarted < now

\* C22: with if_running = 0, a contended check_status() that finds the
\* alert-timestamp file sends no email, leaves the file as it is and exits
\* with LOCKFILE_EXITVAL; so an email is sent only when the file is absent,
\* that is at most once as long as the file stays.
C22_NoReAlertWhenZero ==
    [][\A p \in Procs :
          /\ (LeavesContention(p) /\ if_running = 0
                                  /\ alertFile # NoFile) =>
                /\ sent'[p] = sent[p]
                /\ alertFile' = alertFile
                /\ exitval'[p] = LOCKFILE_EXITVAL
          /\ (if_running = 0 /\ sent'[p] > sent[p]) =>
                alertFile = NoFile /\ epSent = NoFile]_vars

\* with if_running = 0, while a run is in its task body, an invocation has
\* been refused without sending an email although the alert-timestamp file
\* is a minute old
C22_Witness ==
    \E p, q \in Procs :
        /\ if_running = 0
        /\ pc[q] = "task" /\ lockOwner = q
        /\ pc[p] = "exited"
        /\ exitval[p] = LOCKFILE_EXITVAL
        /\ sent[p] = 0
        /\ ~silenced /\ ~disabled
        /\ alertFile # NoFile
        /\ now - alertFile >= SecPerMin

\* C23: the os.unlink() of a check_status() that has made the lock directory
\* removes the alert-timestamp file; 'cancelling previous alert status' is
\* logged, once, exactly when the file existed, and by no other path; when
\* check_status() returns the file does not exist, and the first contended
\* invocation after that finds no alert-timestamp file, takes the
\* first-alert branch and sends an email.
C23_AlertStateReset ==
    [][\A p \in Procs :
          /\ (pc[p] = "unlink_alert"
                /\ pc'[p] \in {"cancel_notice", "returned"}) =>
                /\ alertFile' = NoFile
                /\ pc'[p] = IF alertFile # NoFile THEN "cancel_notice"
                                                 ELSE "returned"
          /\ (pc'[p] = "cancel_notice" /\ pc[p] # "cancel_notice") =>
                pc[p] = "unlink_alert"
          /\ (pc[p] = "cancel_notice" /\ pc'[p] # "cancel_notice") =>
                pc'[p] = "returned"
          /\ (pc'[p] = "returned" /\ pc[p] # "returned") =>
                alertFile' = NoFile
          /\ (pc[p] = "chk_alert" /\ pc'[p] # "chk_alert"
                /\ lockOwner \in Procs /\ pc[lockOwner] # "unlink_alert"
                /\ epSent = NoFile) =>
                pc'[p] = "first_alert"
          /\ (pc[p] = "first_alert" /\ pc'[p] # "first_alert") =>
                /\ sent'[p] = sent[p] + 1
                /\ alertFile' = now]_vars

\* an invocation was refused with an alert email, the lock was released, and
\* the next holder has removed the alert-timestamp file and is logging the
\* notice
C23_Witness ==
    \E p, q \in Procs :
        /\ pc[p] = "cancel_notice" /\ lockOwner = p
        /\ alertFile = NoFile /\ epSent = NoFile
        /\ pc[q] = "exited"
        /\ exitval[q] = LOCKFILE_EXITVAL
        /\ sent[q] = 1

\* C24: the last-started file changes only in the step of an invocation
\* that holds the lock (its check_status() has returned and the lock
\* directory it made is there), which sets it to the current time; so no
\* exit at the interval gate or on contention, no manual mode and no exit
\* callback changes or removes it, and its timestamp never decreases.
C24_StartedWrittenByHolderOnly ==
    [][lastStarted' # lastStarted =>
          /\ \E p \in Procs :
                /\ pc[p] = "returned" /\ pc'[p] = "task"
                /\ lockdir /\ lockOwner = p
          /\ opc' = opc
          /\ lastStarted' = now
          /\ lastStarted' # NoFile
          /\ lastStarted' >= lastStarted]_vars

\* the last-started file still has the time of an earlier start after a
\* refused invocation, a finished run with its exit callback and a manual
\* mode, with no lock directory left
C24_Witness ==
    /\ lastStarted # NoFile /\ lastStarted < now
    /\ ~lockdir
    /\ opc = "idle" /\ opExit = NO_ERROR_EXITVAL
    /\ \E p, q \in Procs :
          /\ pc[p] = "exited" /\ exitval[p] = NO_ERROR_EXITVAL
          /\ pc[q] = "exited" /\ exitval[q] = LOCKFILE_EXITVAL

\* a run is in progress: an invocation is between its successful os.mkdir()
\* and the end of its lockfile_cleanup(), or the lock directory is the one
\* made by an invocation that was killed
InProgress ==
    \/ \E p \in Procs : pc[p] \in Holding
    \/ lockdir /\ lockOwner = Killed

\* no manual control mode has been run so far
NoManualModeYet == opc = "idle" /\ opExit = NoExit

\* C25 as claimed: the lock directory exists exactly when a run is in
\* progress.
C25_LockDirIffRunInProgress == lockdir <=> InProgress

\* C25 as amended: as long as no manual control mode has been run, the lock
\* directory exists exactly when a run is in progress (an active run, or a
\* run that was killed before its exit callback).
C25_LockDirIffRunInProgressNoManual ==
    NoManualModeYet => (lockdir <=> InProgress)

\* the lock directory is the stale one of a killed run, no invocation is
\* active and no manual mode has been run
C25_Witness ==
    /\ NoManualModeYet
    /\ lockdir /\ lockOwner = Killed
    /\ \A p \in Procs : pc[p] \in Resting
    /\ \E p \in Procs : pc[p] = "exited" /\ exitval[p] = LOCKFILE_EXITVAL

\* C26: an invocation whose os.unlink() of the alert-timestamp file failed
\* after it had made the lock directory exits with STARTUP_EXITVAL through
\* lockfile_cleanup(): once it has exited, the lock directory it made is
\* gone (no script_disabled semaphore being there).
C26_NoLockLeakOnUnlinkError ==
    \A p \in Procs :
        fault[p] = "unlink_alert" =>
            /\ pc[p] \in {"cleanup", "rmtree", "exited"}
            /\ exitval[p] = STARTUP_EXITVAL
            /\ (pc[p] = "exited" /\ ~disabled) => ~(lockdir /\ lockOwner = p)

\* after such an exit the next invocation has acquired the lock and is in
\* its task body
C26_Witness ==
    \E p, q \in Procs :
        /\ fault[p] = "unlink_alert"
        /\ pc[p] = "exited"
        /\ exitval[p] = STARTUP_EXITVAL
        /\ pc[q] = "task" /\ lockOwner = q /\ lockdir

\* C27: a step of an invocation that has not made the lock directory (at
\* the interval gate, at os.mkdir() without success, in the contention
\* branch) leaves the lock directory and the two semaphores in it as they
\* are and never enters lockfile_cleanup(); the exit callback is entered
\* only by an invocation that made the lock directory.
C27_NonAcquirerLeavesLock ==
    [][\A p \in Procs :
          /\ (/\ pc[p] \in Resting \cup {"mkdir"} \cup Contended
              /\ pc'[p] # "unlink_alert"
              /\ <<pc[p], exitval[p], sent[p], fault[p]>>'
                    # <<pc[p], exitval[p], sent[p], fault[p]>>) =>
                /\ UNCHANGED <<lockdir, lockOwner, disabled, silenced>>
                /\ pc'[p] \notin {"cleanup", "rmtree"}
          /\ (pc'[p] \in {"cleanup", "rmtree"} /\ pc'[p] # pc[p]) =>
                pc[p] \in Holding]_vars

\* with both semaphores in a lock directory made by the operator, one
\* invocation has exited on contention and another on a failed os.mkdir()
C27_Witness ==
    \E p, q \in Procs :
        /\ pc[p] = "exited" /\ exitval[p] = LOCKFILE_EXITVAL
        /\ pc[q] = "exited" /\ fault[q] = "mkdir"
        /\ lockdir /\ lockOwner = Operator
        /\ disabled /\ silenced

\* C28: the lf_alerts_silenced and script_disabled semaphores appear only in
\* the touch step of silence and disable; they disappear only in the unlink
\* step of unsilence and enable, or together with the whole lock directory
\* in the rmtree of clearlock or of lockfile_cleanup(); so no step of
\* check_status() changes either of them.
C28_SemaphoresChangedByManualModesOnly ==
    [][/\ (silenced' /\ ~silenced) => opc = "sil_touch"
       /\ (disabled' /\ ~disabled) => opc = "dis_touch"
       /\ (silenced /\ ~silenced') =>
             \/ opc = "unsil_unlink" /\ lockdir' = lockdir
                                     /\ disabled' = disabled
             \/ /\ lockdir /\ ~lockdir' /\ ~disabled'
                /\ \/ opc = "clr_rmtree"
                   \/ \E p \in Procs : pc[p] = "rmtree" /\ pc'[p] = "exited"
       /\ (disabled /\ ~disabled') =>
             \/ opc = "en_unlink" /\ lockdir' = lockdir
                                  /\ silenced' = silenced
             \/ /\ lockdir /\ ~lockdir' /\ ~silenced'
                /\ \/ opc = "clr_rmtree"
                   \/ \E p \in Procs : pc[p] = "rmtree" /\ pc'[p] = "exited"
       /\ \A p \in Procs :
             (pc[p] \in InCheckStatus /\ pc'[p] # pc[p]) =>
                UNCHANGED <<silenced, disabled>>]_vars

\* an invocation was refused without an email while the alerts were
\* silenced and left the semaphore in place; the holder's lockfile_cleanup()
\* is about to remove it with the lock directory
C28_Witness ==
    \E p, q \in Procs :
        /\ pc[p] = "rmtree" /\ lockdir /\ lockOwner = p
        /\ silenced /\ ~disabled
        /\ opc = "idle" /\ opExit = NO_ERROR_EXITVAL
        /\ pc[q] = "exited"
        /\ exitval[q] = LOCKFILE_EXITVAL
        /\ sent[q] = 0

\* C29: when the prompt of clear_lockfile() is answered with anything other
\* than y or Y, the mode exits at once with NO_ERROR_EXITVAL and the lock
\* directory, the semaphores and the other files are as before; the rmtree
\* step is reached only from the prompt, and it removes the lock directory
\* with whatever is in it, the script_disabled semaphore included, and
\* exits with NO_ERROR_EXITVAL.
C29_ClearOnlyWhenConfirmed ==
    [][/\ (opc = "idle" /\ scen' = 6 /\ UNCHANGED <<procVars, now>>) =>
             /\ lockdir
             /\ UNCHANGED fsVars
             /\ opc' = "idle"
             /\ opExit' = NO_ERROR_EXITVAL
       /\ (opc # "clr_rmtree" /\ opc' = "clr_rmtree") =>
             /\ opc = "idle" /\ lockdir
             /\ UNCHANGED fsVars
       /\ (opc = "clr_rmtree" /\ opc' # "clr_rmtree") =>
             /\ ~lockdir' /\ ~disabled' /\ ~silenced'
             /\ opc' = "idle"
             /\ opExit' = NO_ERROR_EXITVAL]_vars

\* the operator declined at the prompt: the lock directory made by
\* disable_script and both semaphores are still there
C29_Witness ==
    /\ scen = 6
    /\ opc = "idle" /\ opExit = NO_ERROR_EXITVAL
    /\ lockdir /\ lockOwner = Operator
    /\ disabled /\ silenced

\* the calls of check_status() that are still ahead of an invocation at pc,
\* at most
Rank(at) ==
    CASE at = "mkdir" -> 6
      [] at = "chk_alert" -> 5
      [] at = "chk_silenced" -> 4
      [] at = "stat_alert" -> 3
      [] at \in {"realert", "unlink_alert"} -> 2
      [] at \in {"first_alert", "cancel_notice"} -> 1
      [] OTHER -> 0

\* C30: every step of an invocation inside check_status() brings it nearer
\* to the end of check_status() (no call is made twice, os.mkdir() is not
\* tried again), and every invocation inside check_status() gets out of it,
\* by returning or by exiting, whatever is on disk.
C30_CheckStatusTerminates ==
    /\ [][\A p \in Procs :
             (pc[p] \in InCheckStatus /\ pc'[p] # pc[p]) =>
                Rank(pc'[p]) < Rank(pc[p])]_vars
    /\ \A p \in Procs :
          (pc[p] \in InCheckStatus) ~> (pc[p] \notin InCheckStatus)

\* with a stale lock directory holding both semaphores and an old
\* alert-timestamp file, an invocation has gone through check_status() and
\* exited
C30_Witness ==
    \E p \in Procs :
        /\ lockdir /\ lockOwner = Killed
        /\ disabled /\ silenced
        /\ alertFile # NoFile
        /\ pc[p] = "exited"
        /\ exitval[p] = LOCKFILE_EXITVAL

====
